---- MODULE Spec2Model ----
(***************************************************************************)
(* A model of happy-state-delete (src/happy/HappyStateDelete.py): the      *)
(* teardown of a virtual network topology and of its persisted state.      *)
(*                                                                         *)
(* Every invocation of HappyStateDelete.run is a process p with a program  *)
(* counter pc[p].  The persisted state file, the lock record and the       *)
(* host's namespaces, bridges and interfaces are shared by all             *)
(* invocations.  The collaborators (HappyNodeDelete, HappyNetworkDelete,   *)
(* HappyLinkDelete, HappyInternet, the lock manager and the state          *)
(* accessors inherited from HappyHost) are not part of the two source      *)
(* files; they are modelled from their documented contract.                *)
(***************************************************************************)
EXTENDS Integers, Sequences, FiniteSets, TLC

\* ------------------------------------------------------------------ bounds

MaxNodes == 2
MaxNetworks == 1
MaxLinks == 1
MaxOrphans == 3
MaxReplyLen == 2
MaxFailures == 1
MaxRecords == 2

\* The invocations of the tool that may run on the host.
Procs == {1, 2}

\* ------------------------------------------------------------------- text
\* A string is a sequence of one-character strings.

RECURSIVE Concat(_)
Concat(ss) == IF ss = <<>> THEN <<>> ELSE Head(ss) \o Concat(Tail(ss))

\* sep.join(parts)
RECURSIVE Join(_, _)
Join(parts, sep) ==
    IF parts = <<>> THEN <<>>
    ELSE IF Len(parts) = 1 THEN Head(parts)
    ELSE Head(parts) \o <<sep>> \o Join(Tail(parts), sep)

\* str.split(sep): the pieces between the occurrences of sep; n separators
\* give n + 1 pieces, some of them possibly empty.
RECURSIVE SplitFrom(_, _, _)
SplitFrom(s, sep, acc) ==
    IF s = <<>> THEN <<acc>>
    ELSE IF Head(s) = sep THEN <<acc>> \o SplitFrom(Tail(s), sep, <<>>)
    ELSE SplitFrom(Tail(s), sep, Append(acc, Head(s)))

Split(s, sep) == SplitFrom(s, sep, <<>>)

\* str.lower() on the characters a reply is made of.
LowerChar(c) == IF c = "Y" THEN "y" ELSE IF c = "N" THEN "n" ELSE c

Lower(s) == [i \in 1..Len(s) |-> LowerChar(s[i])]

IsSpace(c) == c = " "

RECURSIVE LStrip(_)
LStrip(s) == IF s # <<>> /\ IsSpace(Head(s)) THEN LStrip(Tail(s)) ELSE s

RECURSIVE RStrip(_)
RStrip(s) ==
    IF s # <<>> /\ IsSpace(s[Len(s)]) THEN RStrip(SubSeq(s, 1, Len(s) - 1)) ELSE s

\* str.strip()
Strip(s) == RStrip(LStrip(s))

\* The decimal digits of a natural number, as text.
DigitChar(d) == <<"0", "1", "2", "3", "4", "5", "6", "7", "8", "9">>[d + 1]

RECURSIVE Decimal(_)
Decimal(n) == IF n < 10 THEN <<DigitChar(n)>> ELSE Decimal(n \div 10) \o <<DigitChar(n % 10)>>

\* The elements of a finite set of integers in ascending order: the order in
\* which the keys of a mapping are enumerated.
RECURSIVE SortedSeq(_)
SortedSeq(S) ==
    IF S = {} THEN <<>>
    ELSE LET m == CHOOSE x \in S : \A y \in S : x <= y
         IN <<m>> \o SortedSeq(S \ {m})

Range(f) == {f[i] : i \in DOMAIN f}

\* ------------------------------------------------------------------ state

VARIABLES
    lock,           \* the lock record: who holds it, and whether the holder still runs
    disk,           \* the persisted state file: [exists, state]
    os,             \* the host's namespaces, bridges and interfaces
    pc,             \* each invocation's position in HappyStateDelete.run
    opts,           \* each invocation's options: quiet, force, all
    mem,            \* each invocation's in-memory state, as last read
    global_config,  \* self.global_config
    items,          \* the list the running for loop iterates over
    todo,           \* the part of it the loop has still to visit
    cur,            \* the loop variable: node_id, network_id or link_id
    reply,          \* the local variable reply: what was typed, lowered and stripped
    trace,          \* what the invocation did so far, in order
    uplinks,        \* the options records handed to HappyInternet, in order
    result,         \* the status of the ReturnMsg, or the exception raised
    failures,       \* how many collaborator calls of the invocation have failed
    heap,           \* the dict objects: the modules' options and the copies handed out
    returned,       \* the references option() has returned, in order
    out,            \* the HappyProcessOutput object, with its position in run()
    fs              \* the output file recorded for the object's node and tag

\* What happy-state-delete works on, and what happy-process-output and
\* the callers of option() work on.
deleteVars == <<lock, disk, os, pc, opts, mem, global_config, items, todo, cur, reply,
                trace, uplinks, result, failures>>

outVars == <<heap, returned, out, fs>>

vars == <<deleteVars, outVars>>

NoInternet == [present |-> FALSE, map |-> <<>>]

EmptyState == [nodes |-> {}, networks |-> {}, links |-> <<>>, internet |-> NoInternet]

NoReply == <<"<", "n", "o", "n", "e", ">">>

NoResult == "none"

\* IDs are integers: the resources of the topology are 1, 2, ...; the
\* resources found on the host that no state file lists are -1, -2, ...
Orphans(k) == {-i : i \in 1..k}

Min(a, b) == IF a < b THEN a ELSE b

\* The address recorded for uplink k; its third octet is what the uplink was
\* created with.
SeedOf(k) == 9 * k - 4

AddrOctets(k) == <<Decimal(172), Decimal(16), Decimal(SeedOf(k)), Decimal(k)>>

UplinkEntry(k) ==
    [iface |-> <<"eth", k>>, isp |-> <<"isp", k>>,
     isp_addr |-> Join(AddrOctets(k), "."), node_id |-> k]

\* Link i connects node i (modulo the nodes there are) to network i.
LinkRecord(i, n, m) == [node |-> ((i - 1) % n) + 1, network |-> ((i - 1) % m) + 1]

\* A topology of n nodes, m networks, l links and u uplinks.
Topology(n, m, l, u, inet) ==
    [nodes |-> 1..n, networks |-> 1..m,
     links |-> [i \in 1..l |-> LinkRecord(i, n, m)],
     internet |-> [present |-> inet, map |-> [k \in 1..u |-> UplinkEntry(k)]]]

\* The topologies a state file can hold: a link has a node and a network, an
\* uplink has a node, and a state with uplinks has the internet map.
WellFormed(n, m, l, u, inet) ==
    /\ l > 0 => (n > 0 /\ m > 0)
    /\ u <= n
    /\ u > 0 => inet

Shapes ==
    {x \in (0..MaxNodes) \X (0..MaxNetworks) \X (0..MaxLinks) \X (0..MaxNodes) \X BOOLEAN :
        WellFormed(x[1], x[2], x[3], x[4], x[5])}

Topologies == {Topology(x[1], x[2], x[3], x[4], x[5]) : x \in Shapes}

Disks ==
    {[exists |-> TRUE, state |-> t] : t \in Topologies}
        \cup {[exists |-> FALSE, state |-> EmptyState]}

\* The lock record: absent, held by a process that runs, or left behind by
\* a process that is gone.  Holder 0 is nobody; the invocations of Procs are
\* 1, 2, ...; -1 is some other process.
NoLock == [holder |-> 0, alive |-> FALSE]

LiveLock == [holder |-> -1, alive |-> TRUE]

StaleLock == [holder |-> -1, alive |-> FALSE]

LockStates == {NoLock, LiveLock, StaleLock}

Options == [quiet : BOOLEAN, force : BOOLEAN, all : BOOLEAN]

ReplyChars == {"y", "Y", "n", " "}

Replies == UNION {[1..k -> ReplyChars] : k \in 0..MaxReplyLen}

\* The host of a topology with h leftovers that no state file lists: the
\* first is a namespace, the second a bridge, the third an interface, ...
Host(st, h) ==
    [netns |-> st.nodes \cup Orphans((h + 2) \div 3),
     bridges |-> st.networks \cup Orphans((h + 1) \div 3),
     ifaces |-> DOMAIN st.links \cup Orphans(h \div 3)]

\* One node linked to one network, and no state file at all.
PairDisk == [exists |-> TRUE, state |-> Topology(1, 1, 1, 0, FALSE)]

NoDisk == [exists |-> FALSE, state |-> EmptyState]

NoOptions == [quiet |-> FALSE, force |-> FALSE, all |-> FALSE]

\* The state, the host and the options an invocation can start from: either
\* any topology on a host that has nothing else, torn down without --quiet,
\* or a linked pair or no state at all, on a host with up to MaxOrphans
\* leftovers, torn down with any options.
Scenario(d, o, op) ==
    \/ /\ d \in Disks
       /\ o = Host(d.state, 0)
       /\ op \in {x \in Options : ~x.quiet}
    \/ /\ d \in {PairDisk, NoDisk}
       /\ \E h \in 0..MaxOrphans : o = Host(d.state, h)
       /\ op \in Options

\* A value that may be None: no element, or the one value.
None == <<>>

Some(x) == <<x>>

\* HappyStateDelete.options and HappyProcessOutput.options as the modules
\* build them.
StateDeleteOptions == [quiet |-> FALSE, force |-> FALSE, all |-> FALSE]

ProcessOutputOptions == [quiet |-> FALSE, node_id |-> None, tag |-> None]

Modules == {"HappyStateDelete", "HappyProcessOutput"}

\* Where each module's options dict is in the heap.
ModuleRef(m) == IF m = "HappyStateDelete" THEN 1 ELSE 2

ModuleHeap == <<StateDeleteOptions, ProcessOutputOptions>>

\* No HappyProcessOutput object yet.
NoOutput ==
    [pc |-> "idle", quiet |-> FALSE, node_id |-> None, tag |-> None,
     process_output |-> None, nodes |-> {}, delays |-> 0, reads |-> 0,
     logged |-> FALSE, error |-> "none", result |-> None]

\* The output file: whether one is recorded for the node and the tag, and
\* what is at its path.
MissingFile == [kind |-> "missing", content |-> <<>>]

NoFile == [recorded |-> FALSE, file |-> MissingFile]

InitOutIdle ==
    /\ heap = ModuleHeap
    /\ returned = <<>>
    /\ out = NoOutput
    /\ fs = NoFile

InitLocal ==
    /\ mem = [p \in Procs |-> EmptyState]
    /\ global_config = [p \in Procs |-> [internet |-> NoInternet]]
    /\ items = [p \in Procs |-> <<>>]
    /\ todo = [p \in Procs |-> <<>>]
    /\ cur = [p \in Procs |-> 0]
    /\ reply = [p \in Procs |-> NoReply]
    /\ trace = [p \in Procs |-> <<>>]
    /\ uplinks = [p \in Procs |-> <<>>]
    /\ result = [p \in Procs |-> NoResult]
    /\ failures = [p \in Procs |-> 0]

\* One invocation of happy-state-delete.
Init ==
    /\ lock \in LockStates
    /\ \E op \in Options :
          /\ Scenario(disk, os, op)
          /\ opts = [p \in Procs |-> IF p = 1 THEN op ELSE NoOptions]
    /\ pc = [p \in Procs |-> IF p = 1 THEN <<"init">> ELSE <<"idle">>]
    /\ InitLocal
    /\ InitOutIdle

\* ------------------------------------------------- collaborators and state
\* What the code under src/ calls and does not define.

\* An entry of the trace: the method of HappyStateDelete that acted, what it
\* did, on which ID, and the quiet option it passed on.
Ev(fn, op, id, quiet) == [fn |-> fn, op |-> op, id |-> id, quiet |-> quiet]

Logged(p, e) == trace' = [trace EXCEPT ![p] = Append(@, e)]

\* State.readState(): the state file's content, or the empty state when
\* there is no file.
ReadState(d) == IF d.exists THEN d.state ELSE EmptyState

\* State.getNodeIds(), getNetworkIds(), getLinkIds(): the keys of the
\* in-memory state, in the mapping's order.
getNodeIds(st) == SortedSeq(st.nodes)

getNetworkIds(st) == SortedSeq(st.networks)

getLinkIds(st) == SortedSeq(DOMAIN st.links)

\* State.getGlobal()
getGlobal(st) == [internet |-> st.internet]

\* The live queries of the host.
getHostNamespaces(o) == SortedSeq(o.netns)

getHostBridges(o) == SortedSeq(o.bridges)

getHostInterfaces(o) == SortedSeq(o.ifaces)

\* lock_manager.break_lock(): clears the lock record, whoever holds it.
break_lock(l) == NoLock

Restrict(f, S) == [x \in S |-> f[x]]

\* HappyNodeDelete.run(): when it succeeds the node's record is pruned from
\* the state file (with, when it cascades, the links that end in the node)
\* and its namespace is removed from the host; when it fails nothing changes.
NodeDeleted(d, id, cascade) ==
    IF ~d.exists THEN d
    ELSE [d EXCEPT !.state.nodes = @ \ {id},
                   !.state.links =
                       IF cascade
                       THEN Restrict(@, {i \in DOMAIN @ : @[i].node # id})
                       ELSE @]

HappyNodeDelete(id, ok, cascade) ==
    /\ disk' = IF ok THEN NodeDeleted(disk, id, cascade) ELSE disk
    /\ os' = IF ok THEN [os EXCEPT !.netns = @ \ {id}] ELSE os

\* HappyNetworkDelete.run()
NetworkDeleted(d, id, cascade) ==
    IF ~d.exists THEN d
    ELSE [d EXCEPT !.state.networks = @ \ {id},
                   !.state.links =
                       IF cascade
                       THEN Restrict(@, {i \in DOMAIN @ : @[i].network # id})
                       ELSE @]

HappyNetworkDelete(id, ok, cascade) ==
    /\ disk' = IF ok THEN NetworkDeleted(disk, id, cascade) ELSE disk
    /\ os' = IF ok THEN [os EXCEPT !.bridges = @ \ {id}] ELSE os

\* HappyLinkDelete.run()
LinkDeleted(d, id) ==
    IF ~d.exists THEN d
    ELSE [d EXCEPT !.state.links = Restrict(@, DOMAIN @ \ {id})]

HappyLinkDelete(id, ok) ==
    /\ disk' = IF ok THEN LinkDeleted(disk, id) ELSE disk
    /\ os' = IF ok THEN [os EXCEPT !.ifaces = @ \ {id}] ELSE os

\* HappyInternet.start() with delete set: the uplink of that node and
\* interface is removed from the internet map of the state file.
InternetDeleted(d, o) ==
    IF ~d.exists THEN d
    ELSE [d EXCEPT !.state.internet.map =
              Restrict(@, {k \in DOMAIN @ :
                              ~(@[k].node_id = o.node_id /\ @[k].iface = o.iface)})]

HappyInternet(o, ok) ==
    /\ disk' = IF ok /\ o.delete THEN InternetDeleted(disk, o) ELSE disk
    /\ os' = os

\* ------------------------------------------------------ HappyStateDelete

At(p, l) == pc[p] = l

Goto(p, l) == pc' = [pc EXCEPT ![p] = l]

IndexOf(seq, x) == CHOOSE i \in 1..Len(seq) : seq[i] = x

\* run() with __delete_state_file called after __cleanup_host.
RunStepsFileLast ==
    <<"pre_check", "delete_internet", "delete_state", "cleanup_host",
      "delete_state_file", "post_check", "return">>

\* run() with __delete_state called before __delete_internet.
RunStepsStateFirst ==
    <<"pre_check", "delete_state", "delete_internet", "delete_state_file",
      "cleanup_host", "post_check", "return">>

\* The steps of run(), in the order run() takes them.
RunSteps ==
    <<"pre_check", "delete_internet", "delete_state", "delete_state_file",
      "cleanup_host", "post_check", "return">>

\* The phases of __delete_state and of __cleanup_host, in their order.
DeleteStateSteps == <<"nodes", "networks", "links">>

\* __cleanup_host with the bridges before the namespaces.
CleanupHostStepsBridgesFirst == <<"host_bridges", "host_netns", "host_links">>

CleanupHostSteps == <<"host_netns", "host_bridges", "host_links">>

\* Where a step of run() starts.
Entry(step) ==
    CASE step = "delete_state" -> DeleteStateSteps[1]
      [] step = "cleanup_host" -> CleanupHostSteps[1]
      [] OTHER -> step

\* run() calling __cleanup_host whatever the option all is.
AfterStepAlways(step, o) == RunSteps[IndexOf(RunSteps, step) + 1]

\* The step run() takes after `step`: __cleanup_host only with the option all.
AfterStep(step, o) ==
    LET i == IndexOf(RunSteps, step)
        next == RunSteps[i + 1]
    IN  IF next = "cleanup_host" /\ ~o.all THEN RunSteps[i + 2] ELSE next

\* Where control goes when phase `ph` of the list `steps` ends; `step` is the
\* step of run() the list belongs to.
AfterPhase(steps, ph, step, o) ==
    LET i == IndexOf(steps, ph)
    IN  IF i < Len(steps) THEN steps[i + 1] ELSE Entry(AfterStep(step, o))

Loop(ph) == <<ph, "loop">>

Asked(ph) == <<ph, "reply">>

\* HappyStateDelete(opts): the options are copied into the object and
\* HappyHost.__init__ loads the state.
Construct(p) ==
    /\ At(p, <<"init">>)
    /\ mem' = [mem EXCEPT ![p] = ReadState(disk)]
    /\ Goto(p, <<Entry(RunSteps[1])>>)
    /\ UNCHANGED <<outVars, lock, disk, os, opts, global_config, items, todo, cur, reply, trace,
                   uplinks, result, failures>>

\* A pre-check that leaves the lock as it finds it.
PreCheckNoBreak(p) ==
    /\ At(p, <<"pre_check">>)
    /\ Goto(p, <<Entry(AfterStep("pre_check", opts[p]))>>)
    /\ UNCHANGED <<outVars, lock, disk, os, opts, mem, global_config, items, todo, cur, reply, trace,
                   uplinks, result, failures>>

\* A pre-check that breaks the lock and then takes it, waiting while another
\* invocation holds it.
PreCheckAcquire(p) ==
    /\ At(p, <<"pre_check">>)
    /\ lock.holder \notin Procs \ {p}
    /\ lock' = [holder |-> p, alive |-> TRUE]
    /\ Logged(p, Ev("__pre_check", "break_lock", 0, opts[p].quiet))
    /\ Goto(p, <<Entry(AfterStep("pre_check", opts[p]))>>)
    /\ UNCHANGED <<outVars, disk, os, opts, mem, global_config, items, todo, cur, reply, uplinks, result,
                   failures>>

\* __pre_check
PreCheck(p) ==
    /\ At(p, <<"pre_check">>)
    /\ lock' = break_lock(lock)
    /\ Logged(p, Ev("__pre_check", "break_lock", 0, opts[p].quiet))
    /\ Goto(p, <<Entry(AfterStep("pre_check", opts[p]))>>)
    /\ UNCHANGED <<outVars, disk, os, opts, mem, global_config, items, todo, cur, reply, uplinks, result,
                   failures>>

\* Whether a collaborator call succeeds is not the caller's to decide; at
\* most MaxFailures calls of an invocation fail.
Outcome(p, ok) ==
    /\ ok \/ failures[p] < MaxFailures
    /\ failures' = [failures EXCEPT ![p] = IF ok THEN @ ELSE @ + 1]

\* Seed with the index off by one: the second piece.
SeedSecondPiece(isp_addr) == Split(isp_addr, ".")[2]

\* The third dot-separated piece of the recorded address.
Seed(isp_addr) == Split(isp_addr, ".")[3]

\* The options __delete_internet builds for one value of the internet map.
InternetOptions(v) ==
    [delete |-> TRUE, iface |-> v.iface, isp |-> v.isp,
     seed |-> Seed(v.isp_addr), node_id |-> v.node_id]

\* __delete_internet, up to the for loop: the global configuration is kept
\* in self.global_config and the values of its internet map are enumerated.
DeleteInternetBegin(p) ==
    /\ At(p, <<"delete_internet">>)
    /\ global_config' = [global_config EXCEPT ![p] = getGlobal(mem[p])]
    /\ items' = [items EXCEPT ![p] =
                  IF global_config'[p].internet.present
                  THEN SortedSeq(DOMAIN global_config'[p].internet.map)
                  ELSE <<>>]
    /\ todo' = [todo EXCEPT ![p] = items'[p]]
    /\ Logged(p, Ev("__delete_internet", "getGlobal", 0, opts[p].quiet))
    /\ Goto(p, Loop("delete_internet"))
    /\ UNCHANGED <<outVars, lock, disk, os, opts, mem, cur, reply, uplinks, result,
                   failures>>

\* One iteration of the loop of __delete_internet.
DeleteInternetCall(p) ==
    /\ At(p, Loop("delete_internet"))
    /\ todo[p] # <<>>
    /\ LET k == Head(todo[p])
           options == InternetOptions(global_config[p].internet.map[k])
       IN  /\ uplinks' = [uplinks EXCEPT ![p] = Append(@, options)]
           /\ \E ok \in BOOLEAN : Outcome(p, ok) /\ HappyInternet(options, ok)
           /\ Logged(p, Ev("__delete_internet", "HappyInternet", k, opts[p].quiet))
    /\ todo' = [todo EXCEPT ![p] = Tail(@)]
    /\ UNCHANGED <<outVars, lock, pc, opts, mem, global_config, items, cur, reply, result>>

DeleteInternetEnd(p) ==
    /\ At(p, Loop("delete_internet"))
    /\ todo[p] = <<>>
    /\ Goto(p, <<Entry(AfterStep("delete_internet", opts[p]))>>)
    /\ UNCHANGED <<outVars, lock, disk, os, opts, mem, global_config, items, todo, cur, reply, trace,
                   uplinks, result, failures>>

\* The start of a phase: its IDs are enumerated once, before its loop.
PhaseBegin(p, ph, ids, ev) ==
    /\ At(p, <<ph>>)
    /\ items' = [items EXCEPT ![p] = ids]
    /\ todo' = [todo EXCEPT ![p] = ids]
    /\ Logged(p, ev)
    /\ Goto(p, Loop(ph))
    /\ UNCHANGED <<outVars, lock, disk, os, opts, mem, global_config, cur, reply, uplinks, result,
                   failures>>

\* The end of a phase: self.readState().
PhaseEnd(p, ph, fn, next) ==
    /\ At(p, Loop(ph))
    /\ todo[p] = <<>>
    /\ mem' = [mem EXCEPT ![p] = ReadState(disk)]
    /\ reply' = [reply EXCEPT ![p] = NoReply]
    /\ Logged(p, Ev(fn, "readState", 0, opts[p].quiet))
    /\ Goto(p, <<next>>)
    /\ UNCHANGED <<outVars, lock, disk, os, opts, global_config, items, todo, cur, uplinks, result,
                   failures>>

\* One deletion command built from a copy of the collaborator's options,
\* with quiet and the ID set, and run; its return value is dropped.
DeleteCall(p, fn, op, id) ==
    /\ \E ok \in BOOLEAN, cascade \in BOOLEAN :
          /\ Outcome(p, ok)
          /\ CASE op = "HappyNodeDelete" -> HappyNodeDelete(id, ok, cascade)
               [] op = "HappyNetworkDelete" -> HappyNetworkDelete(id, ok, cascade)
               [] op = "HappyLinkDelete" -> HappyLinkDelete(id, ok)
    /\ Logged(p, Ev(fn, op, id, opts[p].quiet))

\* An iteration that leaves the loop when the deletion command fails.
StateCallStopsOnFailure(p, ph, op) ==
    /\ At(p, Loop(ph))
    /\ todo[p] # <<>>
    /\ cur' = [cur EXCEPT ![p] = Head(todo[p])]
    /\ DeleteCall(p, "__delete_state", op, Head(todo[p]))
    /\ todo' = [todo EXCEPT ![p] = IF failures'[p] > failures[p] THEN <<>> ELSE Tail(@)]
    /\ UNCHANGED <<outVars, lock, pc, opts, mem, global_config, items, reply, uplinks, result>>

\* One iteration of a loop of __delete_state.
StateCall(p, ph, op) ==
    /\ At(p, Loop(ph))
    /\ todo[p] # <<>>
    /\ cur' = [cur EXCEPT ![p] = Head(todo[p])]
    /\ DeleteCall(p, "__delete_state", op, Head(todo[p]))
    /\ todo' = [todo EXCEPT ![p] = Tail(@)]
    /\ UNCHANGED <<outVars, lock, pc, opts, mem, global_config, items, reply, uplinks, result>>

\* The node phase without the self.readState() that ends it.
DeleteNodesEndStale(p) ==
    /\ At(p, Loop("nodes"))
    /\ todo[p] = <<>>
    /\ Goto(p, <<AfterPhase(DeleteStateSteps, "nodes", "delete_state", opts[p])>>)
    /\ UNCHANGED <<outVars, lock, disk, os, opts, mem, global_config, items, todo, cur, reply,
                   trace, uplinks, result, failures>>

\* __delete_state: the nodes, self.readState()
DeleteNodesBegin(p) ==
    PhaseBegin(p, "nodes", getNodeIds(mem[p]),
               Ev("__delete_state", "getNodeIds", 0, opts[p].quiet))

DeleteNodesCall(p) == StateCall(p, "nodes", "HappyNodeDelete")

DeleteNodesEnd(p) ==
    PhaseEnd(p, "nodes", "__delete_state",
             AfterPhase(DeleteStateSteps, "nodes", "delete_state", opts[p]))

\* __delete_state: the networks, self.readState()
DeleteNetworksBegin(p) ==
    PhaseBegin(p, "networks", getNetworkIds(mem[p]),
               Ev("__delete_state", "getNetworkIds", 0, opts[p].quiet))

DeleteNetworksCall(p) == StateCall(p, "networks", "HappyNetworkDelete")

\* The network phase without the self.readState() that ends it.
DeleteNetworksEndStale(p) ==
    /\ At(p, Loop("networks"))
    /\ todo[p] = <<>>
    /\ Goto(p, <<AfterPhase(DeleteStateSteps, "networks", "delete_state", opts[p])>>)
    /\ UNCHANGED <<outVars, lock, disk, os, opts, mem, global_config, items, todo, cur, reply,
                   trace, uplinks, result, failures>>

DeleteNetworksEnd(p) ==
    PhaseEnd(p, "networks", "__delete_state",
             AfterPhase(DeleteStateSteps, "networks", "delete_state", opts[p]))

\* __delete_state: the links, self.readState()
DeleteLinksBegin(p) ==
    PhaseBegin(p, "links", getLinkIds(mem[p]),
               Ev("__delete_state", "getLinkIds", 0, opts[p].quiet))

DeleteLinksCall(p) == StateCall(p, "links", "HappyLinkDelete")

DeleteLinksEnd(p) ==
    PhaseEnd(p, "links", "__delete_state",
             AfterPhase(DeleteStateSteps, "links", "delete_state", opts[p]))

\* os.remove without the os.path.isfile test: an absent file raises.
DeleteStateFileUnguarded(p) ==
    /\ At(p, <<"delete_state_file">>)
    /\ IF disk.exists
       THEN /\ disk' = [exists |-> FALSE, state |-> EmptyState]
            /\ Logged(p, Ev("__delete_state_file", "remove", 0, opts[p].quiet))
            /\ Goto(p, <<Entry(AfterStep("delete_state_file", opts[p]))>>)
            /\ UNCHANGED result
       ELSE /\ result' = [result EXCEPT ![p] = "FileNotFoundError"]
            /\ Goto(p, <<"raised">>)
            /\ UNCHANGED <<disk, trace>>
    /\ UNCHANGED <<outVars, lock, os, opts, mem, global_config, items, todo, cur, reply, uplinks,
                   failures>>

\* __delete_state_file: the file is removed when it is there.
DeleteStateFile(p) ==
    /\ At(p, <<"delete_state_file">>)
    /\ disk' = IF disk.exists THEN [exists |-> FALSE, state |-> EmptyState] ELSE disk
    /\ Logged(p, Ev("__delete_state_file", IF disk.exists THEN "remove" ELSE "absent", 0,
                    opts[p].quiet))
    /\ Goto(p, <<Entry(AfterStep("delete_state_file", opts[p]))>>)
    /\ UNCHANGED <<outVars, lock, os, opts, mem, global_config, items, todo, cur, reply, uplinks, result,
                   failures>>

\* str(input(...)).lower().strip()
Normalized(r) == Strip(Lower(r))

\* reply[0] == 'y': indexing the empty string raises IndexError.
FirstIsY(r) == IF Len(r) = 0 THEN "IndexError" ELSE IF r[1] = "y" THEN "yes" ELSE "no"

\* len(reply) > 0 and reply[0] == 'y'
NonEmptyFirstIsY(r) == IF Len(r) > 0 /\ r[1] = "y" THEN "yes" ELSE "no"

\* What the answer to "Delete host namespace ... (y/N): " decides.
HostNetnsAnswer(r) == FirstIsY(r)

\* What the answer to "Delete host bridge ... (y/N): " decides.
HostBridgeAnswer(r) == FirstIsY(r)

\* What the answer to "Delete host link ... (y/N): " decides.
HostLinkAnswer(r) == NonEmptyFirstIsY(r)

\* An iteration with self.force set: delete_it is True without a prompt.
HostForced(p, ph, fn, op) ==
    /\ At(p, Loop(ph))
    /\ todo[p] # <<>>
    /\ opts[p].force
    /\ cur' = [cur EXCEPT ![p] = Head(todo[p])]
    /\ DeleteCall(p, fn, op, Head(todo[p]))
    /\ todo' = [todo EXCEPT ![p] = Tail(@)]
    /\ UNCHANGED <<outVars, lock, pc, opts, mem, global_config, items, reply, uplinks, result>>

\* An iteration that asks the operator whatever self.force is.
HostAskAlways(p, ph, fn) ==
    /\ At(p, Loop(ph))
    /\ todo[p] # <<>>
    /\ cur' = [cur EXCEPT ![p] = Head(todo[p])]
    /\ \E r \in Replies : reply' = [reply EXCEPT ![p] = Normalized(r)]
    /\ Logged(p, Ev(fn, "input", Head(todo[p]), opts[p].quiet))
    /\ Goto(p, Asked(ph))
    /\ UNCHANGED <<outVars, lock, disk, os, opts, mem, global_config, items, todo, uplinks, result,
                   failures>>

\* An iteration without self.force: the operator is asked and answers.
HostAsk(p, ph, fn) ==
    /\ At(p, Loop(ph))
    /\ todo[p] # <<>>
    /\ ~opts[p].force
    /\ cur' = [cur EXCEPT ![p] = Head(todo[p])]
    /\ \E r \in Replies : reply' = [reply EXCEPT ![p] = Normalized(r)]
    /\ Logged(p, Ev(fn, "input", Head(todo[p]), opts[p].quiet))
    /\ Goto(p, Asked(ph))
    /\ UNCHANGED <<outVars, lock, disk, os, opts, mem, global_config, items, todo, uplinks, result,
                   failures>>

\* The rest of the iteration: the answer is tested, and the resource is
\* deleted or left with a log record; an exception leaves run().
HostDecide(p, ph, fn, op, answer) ==
    /\ At(p, Asked(ph))
    /\ CASE answer = "yes" ->
              /\ DeleteCall(p, fn, op, cur[p])
              /\ todo' = [todo EXCEPT ![p] = Tail(@)]
              /\ Goto(p, Loop(ph))
              /\ reply' = [reply EXCEPT ![p] = NoReply]
              /\ UNCHANGED result
         [] answer = "no" ->
              /\ Logged(p, Ev(fn, "leaving", cur[p], opts[p].quiet))
              /\ todo' = [todo EXCEPT ![p] = Tail(@)]
              /\ Goto(p, Loop(ph))
              /\ reply' = [reply EXCEPT ![p] = NoReply]
              /\ UNCHANGED <<disk, os, result, failures>>
         [] OTHER ->
              /\ result' = [result EXCEPT ![p] = answer]
              /\ Goto(p, <<"raised">>)
              /\ UNCHANGED <<disk, os, todo, trace, reply, failures>>
    /\ UNCHANGED <<outVars, lock, opts, mem, global_config, items, cur, uplinks>>

\* __delete_host_netns
HostNetnsBegin(p) ==
    PhaseBegin(p, "host_netns", getHostNamespaces(os),
               Ev("__delete_host_netns", "getHostNamespaces", 0, opts[p].quiet))

HostNetnsForced(p) == HostForced(p, "host_netns", "__delete_host_netns", "HappyNodeDelete")

HostNetnsAsk(p) == HostAsk(p, "host_netns", "__delete_host_netns")

HostNetnsDecide(p) ==
    HostDecide(p, "host_netns", "__delete_host_netns", "HappyNodeDelete",
               HostNetnsAnswer(reply[p]))

HostNetnsEnd(p) ==
    PhaseEnd(p, "host_netns", "__delete_host_netns",
             AfterPhase(CleanupHostSteps, "host_netns", "cleanup_host", opts[p]))

\* __delete_host_bridges
HostBridgesBegin(p) ==
    PhaseBegin(p, "host_bridges", getHostBridges(os),
               Ev("__delete_host_bridges", "getHostBridges", 0, opts[p].quiet))

HostBridgesForced(p) ==
    HostForced(p, "host_bridges", "__delete_host_bridges", "HappyNetworkDelete")

HostBridgesAsk(p) == HostAsk(p, "host_bridges", "__delete_host_bridges")

HostBridgesDecide(p) ==
    HostDecide(p, "host_bridges", "__delete_host_bridges", "HappyNetworkDelete",
               HostBridgeAnswer(reply[p]))

HostBridgesEnd(p) ==
    PhaseEnd(p, "host_bridges", "__delete_host_bridges",
             AfterPhase(CleanupHostSteps, "host_bridges", "cleanup_host", opts[p]))

\* __delete_host_links
HostLinksBegin(p) ==
    PhaseBegin(p, "host_links", getHostInterfaces(os),
               Ev("__delete_host_links", "getHostInterfaces", 0, opts[p].quiet))

HostLinksForced(p) == HostForced(p, "host_links", "__delete_host_links", "HappyLinkDelete")

HostLinksAsk(p) == HostAsk(p, "host_links", "__delete_host_links")

HostLinksDecide(p) ==
    HostDecide(p, "host_links", "__delete_host_links", "HappyLinkDelete",
               HostLinkAnswer(reply[p]))

HostLinksEnd(p) ==
    PhaseEnd(p, "host_links", "__delete_host_links",
             AfterPhase(CleanupHostSteps, "host_links", "cleanup_host", opts[p]))

\* __post_check
PostCheck(p) ==
    /\ At(p, <<"post_check">>)
    /\ Logged(p, Ev("__post_check", "completed", 0, opts[p].quiet))
    /\ Goto(p, <<Entry(AfterStep("post_check", opts[p]))>>)
    /\ UNCHANGED <<outVars, lock, disk, os, opts, mem, global_config, items, todo, cur, reply, uplinks,
                   result, failures>>

\* return ReturnMsg(0)
Return(p) ==
    /\ At(p, <<"return">>)
    /\ result' = [result EXCEPT ![p] = "ReturnMsg(0)"]
    /\ Goto(p, <<"done">>)
    /\ UNCHANGED <<outVars, lock, disk, os, opts, mem, global_config, items, todo, cur, reply, trace,
                   uplinks, failures>>

\* HappyStateDelete(opts).run()
Run(p) ==
    \/ Construct(p)
    \/ PreCheck(p)
    \/ DeleteInternetBegin(p) \/ DeleteInternetCall(p) \/ DeleteInternetEnd(p)
    \/ DeleteNodesBegin(p) \/ DeleteNodesCall(p) \/ DeleteNodesEnd(p)
    \/ DeleteNetworksBegin(p) \/ DeleteNetworksCall(p) \/ DeleteNetworksEnd(p)
    \/ DeleteLinksBegin(p) \/ DeleteLinksCall(p) \/ DeleteLinksEnd(p)
    \/ DeleteStateFile(p)
    \/ HostNetnsBegin(p) \/ HostNetnsForced(p) \/ HostNetnsAsk(p)
    \/ HostNetnsDecide(p) \/ HostNetnsEnd(p)
    \/ HostBridgesBegin(p) \/ HostBridgesForced(p) \/ HostBridgesAsk(p)
    \/ HostBridgesDecide(p) \/ HostBridgesEnd(p)
    \/ HostLinksBegin(p) \/ HostLinksForced(p) \/ HostLinksAsk(p)
    \/ HostLinksDecide(p) \/ HostLinksEnd(p)
    \/ PostCheck(p)
    \/ Return(p)

Next == \E p \in Procs : Run(p)

Spec == Init /\ [][Next]_vars

\* Two invocations of happy-state-delete started on the same host, the first
\* with --all, forced or not, and the second with no option.  The state holds one node with an
\* uplink, linked to one network; the host has one leftover of each kind;
\* no collaborator call fails.
ConcDisk == [exists |-> TRUE, state |-> Topology(1, 1, 1, 1, TRUE)]

InitConc ==
    /\ lock \in LockStates
    /\ disk = ConcDisk
    /\ os = [netns |-> disk.state.nodes \cup Orphans(1),
             bridges |-> disk.state.networks \cup Orphans(1),
             ifaces |-> DOMAIN disk.state.links \cup Orphans(1)]
    /\ \E f \in BOOLEAN :
          opts = [p \in Procs |-> [quiet |-> FALSE, force |-> f /\ p = 1, all |-> p = 1]]
    /\ pc = [p \in Procs |-> <<"init">>]
    /\ mem = [p \in Procs |-> EmptyState]
    /\ global_config = [p \in Procs |-> [internet |-> NoInternet]]
    /\ items = [p \in Procs |-> <<>>]
    /\ todo = [p \in Procs |-> <<>>]
    /\ cur = [p \in Procs |-> 0]
    /\ reply = [p \in Procs |-> NoReply]
    /\ trace = [p \in Procs |-> <<>>]
    /\ uplinks = [p \in Procs |-> <<>>]
    /\ result = [p \in Procs |-> NoResult]
    /\ failures = [p \in Procs |-> MaxFailures]
    /\ InitOutIdle

SpecConc == InitConc /\ [][Next]_vars

\* ------------------------------------- option() and HappyProcessOutput

\* The names of the nodes of a state, as text.
NodeNames(st) == {Decimal(k) : k \in st.nodes}

\* What a caller may put under a key of an options record.
NodeIdValues == {None, Some(<<>>), Some(Decimal(1)), Some(Decimal(2))}

TagValues == {None, Some(<<>>), Some(<<"t">>)}

KeyValues(k) ==
    CASE k = "node_id" -> NodeIdValues
      [] k = "tag" -> TagValues
      [] OTHER -> BOOLEAN

\* What can be at the path of the output file.
Files ==
    {MissingFile, [kind |-> "denied", content |-> <<>>],
     [kind |-> "undecodable", content |-> <<>>],
     [kind |-> "text", content |-> <<>>], [kind |-> "text", content |-> <<"o", "k">>]}

\* Nothing is constructed yet: the callers are still preparing options.
Preparing == out.pc = "idle" /\ \A p \in Procs : pc[p] = <<"idle">>

\* option() returning the module's own dict instead of a copy of it.
OptionAlias(m) ==
    /\ Preparing
    /\ Len(returned) < MaxRecords
    /\ returned' = Append(returned, ModuleRef(m))
    /\ UNCHANGED <<deleteVars, heap, out, fs>>

\* option(): options.copy(), a new dict with the keys and values of the
\* module's dict.
Option(m) ==
    /\ Preparing
    /\ Len(returned) < MaxRecords
    /\ heap' = Append(heap, [k \in DOMAIN heap[ModuleRef(m)] |-> heap[ModuleRef(m)][k]])
    /\ returned' = Append(returned, Len(heap) + 1)
    /\ UNCHANGED <<deleteVars, out, fs>>

\* A caller sets a key of a record that option() returned to it.
SetKey(i, k, v) ==
    /\ Preparing
    /\ i \in DOMAIN returned
    /\ k \in DOMAIN heap[returned[i]]
    /\ heap' = [heap EXCEPT ![returned[i]] = [@ EXCEPT ![k] = v]]
    /\ UNCHANGED <<deleteVars, returned, out, fs>>

\* The dicts a constructor of module m may be handed: the module's own dict,
\* which is the default of the parameter opts, or a record option() returned.
Usable(m) ==
    {ModuleRef(m)} \cup
    {returned[i] : i \in {j \in DOMAIN returned :
                             DOMAIN heap[returned[j]] = DOMAIN heap[ModuleRef(m)]}}

\* HappyStateDelete.__init__: the three options are read from opts.
ReadOptions(p, r) ==
    /\ Preparing
    /\ r \in Usable("HappyStateDelete")
    /\ opts' = [opts EXCEPT ![p] = [quiet |-> heap[r].quiet, force |-> heap[r].force,
                                    all |-> heap[r].all]]
    /\ Goto(p, <<"init">>)
    /\ UNCHANGED <<outVars, lock, disk, os, mem, global_config, items, todo, cur, reply, trace,
                   uplinks, result, failures>>

\* HappyProcessOutput.__init__
OutInit(r) ==
    /\ Preparing
    /\ r \in Usable("HappyProcessOutput")
    /\ out' = [out EXCEPT !.pc = "pre_check", !.quiet = heap[r].quiet,
                          !.node_id = heap[r].node_id, !.tag = heap[r].tag,
                          !.process_output = None, !.nodes = NodeNames(ReadState(disk))]
    /\ UNCHANGED <<deleteVars, heap, returned, fs>>

\* not x, for a value that is None or a string.
Falsy(x) == x = None \/ x[1] = <<>>

\* self.RaiseError(emsg)
Raised(o, emsg) == [o EXCEPT !.pc = "raised", !.error = emsg]

\* __pre_check with the test of the tag before the test that the node exists.
OutPreCheckTagFirst ==
    /\ out.pc = "pre_check"
    /\ out' = IF Falsy(out.node_id) THEN Raised(out, "Missing name of the virtual node.")
              ELSE IF Falsy(out.tag)
                   THEN Raised(out, "Missing name of the process to retrieve output from.")
              ELSE IF out.node_id[1] \notin out.nodes
                   THEN Raised(out, "virtual node does not exist.")
              ELSE [out EXCEPT !.pc = "process_output"]
    /\ UNCHANGED <<deleteVars, heap, returned, fs>>

\* __pre_check
OutPreCheck ==
    /\ out.pc = "pre_check"
    /\ out' = IF Falsy(out.node_id) THEN Raised(out, "Missing name of the virtual node.")
              ELSE IF out.node_id[1] \notin out.nodes
                   THEN Raised(out, "virtual node does not exist.")
              ELSE IF Falsy(out.tag)
                   THEN Raised(out, "Missing name of the process to retrieve output from.")
              ELSE [out EXCEPT !.pc = "process_output"]
    /\ UNCHANGED <<deleteVars, heap, returned, fs>>

\* __process_output taking the delay whether or not the file exists.
OutLookupAlwaysDelay ==
    /\ out.pc = "process_output"
    /\ out' = IF ~fs.recorded THEN Raised(out, "Process tag could not be found at node.")
              ELSE [out EXCEPT !.pc = "delay"]
    /\ UNCHANGED <<deleteVars, heap, returned, fs>>

\* __process_output up to the test of os.path.exists(fout).
OutLookup ==
    /\ out.pc = "process_output"
    /\ out' = IF ~fs.recorded THEN Raised(out, "Process tag could not be found at node.")
              ELSE IF fs.file.kind = "missing" THEN [out EXCEPT !.pc = "delay"]
              ELSE [out EXCEPT !.pc = "read"]
    /\ UNCHANGED <<deleteVars, heap, returned, fs>>

\* delayExecution(0.5): meanwhile the process may have written the file.
OutDelay ==
    /\ out.pc = "delay"
    /\ out' = [out EXCEPT !.pc = "read", !.delays = @ + 1]
    /\ \E f \in Files : fs' = [fs EXCEPT !.file = f]
    /\ UNCHANGED <<deleteVars, heap, returned>>

\* The try statement: open and read, and the two except clauses; then the
\* debug log of the output unless quiet.
OutRead ==
    /\ out.pc = "read"
    /\ out' = CASE fs.file.kind = "text" ->
                     [out EXCEPT !.pc = "return", !.reads = @ + 1,
                                 !.process_output = Some(fs.file.content),
                                 !.logged = ~out.quiet]
                [] fs.file.kind = "undecodable" ->
                     [Raised(out, "Exception") EXCEPT !.reads = @ + 1]
                [] OTHER -> [Raised(out, "IOError") EXCEPT !.reads = @ + 1]
    /\ UNCHANGED <<deleteVars, heap, returned, fs>>

\* return ReturnMsg(0, self.process_output)
OutReturn ==
    /\ out.pc = "return"
    /\ out' = [out EXCEPT !.pc = "done",
                          !.result = Some([status |-> 0, data |-> out.process_output])]
    /\ UNCHANGED <<deleteVars, heap, returned, fs>>

\* HappyProcessOutput(opts).run()
OutRun == OutPreCheck \/ OutLookup \/ OutDelay \/ OutRead \/ OutReturn

NextOutput ==
    \/ \E r \in DOMAIN heap : OutInit(r)
    \/ OutRun

\* The options records a caller can have prepared for HappyProcessOutput.
OutputRecords == [quiet : BOOLEAN, node_id : NodeIdValues, tag : TagValues]

\* The state of the teardown's variables while no teardown runs: the state
\* holds node 1 linked to network 1.
InitNoDelete ==
    /\ lock = NoLock
    /\ disk = PairDisk
    /\ os = Host(disk.state, 0)
    /\ opts = [p \in Procs |-> NoOptions]
    /\ pc = [p \in Procs |-> <<"idle">>]
    /\ InitLocal

\* One HappyProcessOutput is constructed, from the module's dict or from a
\* record a caller prepared, and run, with or without an output file
\* recorded and with anything at its path.
InitOutput ==
    /\ InitNoDelete
    /\ \E rec \in OutputRecords : heap = Append(ModuleHeap, rec)
    /\ returned = <<Len(heap)>>
    /\ out = NoOutput
    /\ fs \in {NoFile} \cup [recorded : {TRUE}, file : Files]

SpecOutput == InitOutput /\ [][NextOutput]_vars

NextOptions ==
    \/ \E m \in Modules : Option(m)
    \/ \E i \in 1..MaxRecords, k \in {"quiet", "force", "all", "node_id", "tag"} :
          \E v \in KeyValues(k) : SetKey(i, k, v)
    \/ \E p \in Procs, r \in DOMAIN heap : ReadOptions(p, r)
    \/ \E r \in DOMAIN heap : OutInit(r)
    \/ OutRun

\* Callers take up to MaxRecords options records and set their keys; then
\* one command is constructed from the module's dict or from a record, and
\* a HappyProcessOutput is run; the output file may appear late.
InitOptions ==
    /\ InitNoDelete
    /\ heap = ModuleHeap
    /\ returned = <<>>
    /\ out = NoOutput
    /\ fs \in [recorded : {TRUE}, file : {f \in Files : f.content = <<>>}]

SpecOptions == InitOptions /\ [][NextOptions]_vars

\* ---------------------------------------------------------------- claims

\* The places in an invocation's trace where method fn did op.
Idx(p, fn, op) == {i \in DOMAIN trace[p] : trace[p][i].fn = fn /\ trace[p][i].op = op}

In(p, fn) == {i \in DOMAIN trace[p] : trace[p][i].fn = fn}

Before(A, B) == \A i \in A, j \in B : i < j

StateCalls(p, op) == Idx(p, "__delete_state", op)

UplinkCalls(p) == Idx(p, "__delete_internet", "HappyInternet")

DeleteOps == {"HappyNodeDelete", "HappyNetworkDelete", "HappyLinkDelete"}

\* Every deletion of a node, a network or a link, structural or on the host.
DeleteCalls(p) == {i \in DOMAIN trace[p] : trace[p][i].op \in DeleteOps}

Succeeded(p) == pc[p] = <<"done">> /\ result[p] = "ReturnMsg(0)"

\* What __delete_state may do before its first, second and third readState.
StateOps ==
    <<{"getNodeIds", "HappyNodeDelete", "readState"},
      {"getNetworkIds", "HappyNetworkDelete", "readState"},
      {"getLinkIds", "HappyLinkDelete", "readState"}>>

\* The number of readState calls of __delete_state in the trace t from
\* place i on, added to k, when every event of __delete_state is one that
\* may come after the reads before it; -1 when one is not.
RECURSIVE ReadsIn(_, _, _)
ReadsIn(t, i, k) ==
    IF i > Len(t) THEN k
    ELSE IF t[i].fn # "__delete_state" THEN ReadsIn(t, i + 1, k)
    ELSE IF k >= Len(StateOps) \/ t[i].op \notin StateOps[k + 1] THEN -1
    ELSE ReadsIn(t, i + 1, IF t[i].op = "readState" THEN k + 1 ELSE k)

C1_Order(p) ==
    LET nodes == StateCalls(p, "HappyNodeDelete")
        networks == StateCalls(p, "HappyNetworkDelete")
        links == StateCalls(p, "HappyLinkDelete")
    IN  Before(nodes, networks) /\ Before(networks, links) /\ Before(nodes, links)

C1_Reads(p) ==
    LET reads == ReadsIn(trace[p], 1, 0)
    IN  /\ reads >= 0
        /\ pc[p][1] \in {"delete_state_file", "cleanup_host", "host_netns", "host_bridges",
                         "host_links", "post_check", "return", "done"} =>
              reads = Len(StateOps)

C1_Fresh(p) ==
    /\ pc[p] \in {<<"networks">>, <<"links">>} => mem[p] = ReadState(disk)
    /\ At(p, Loop("networks")) => items[p] = getNetworkIds(mem[p])
    /\ At(p, Loop("links")) => items[p] = getLinkIds(mem[p])

\* C1: in a run the structural deletions are ordered nodes, networks, links:
\* every node deletion of __delete_state precedes every network deletion and
\* every network deletion precedes every link deletion; the state is re-read
\* after each of the three phases, and the network and the link phase
\* enumerate their IDs from the state as that re-read found it.
C1_PhaseOrder == \A p \in Procs : C1_Order(p) /\ C1_Reads(p) /\ C1_Fresh(p)

C1_Witness ==
    \E p \in Procs :
        /\ Succeeded(p)
        /\ Cardinality(StateCalls(p, "HappyNodeDelete")) >= 2
        /\ StateCalls(p, "HappyNetworkDelete") # {}
        /\ StateCalls(p, "HappyLinkDelete") # {}

\* C2: the uplinks are torn down first: the global configuration is taken
\* before any deletion call of the run, the uplink calls are made for the
\* entries of that snapshot, and every uplink call precedes every deletion
\* of a node, a network or a link.
C2_UplinksFirst ==
    \A p \in Procs :
        LET uplinkCalls == UplinkCalls(p)
            deleteCalls == DeleteCalls(p)
            snapshot == Idx(p, "__delete_internet", "getGlobal")
            acted == {trace[p][i].id : i \in uplinkCalls}
        IN  /\ Before(uplinkCalls, deleteCalls)
            /\ Before(snapshot, uplinkCalls \cup deleteCalls)
            /\ uplinkCalls # {} => snapshot # {}
            /\ acted \subseteq DOMAIN global_config[p].internet.map
            /\ deleteCalls # {} => acted = DOMAIN global_config[p].internet.map

C2_Witness ==
    \E p \in Procs :
        /\ Succeeded(p)
        /\ UplinkCalls(p) # {}
        /\ StateCalls(p, "HappyNodeDelete") # {}

\* The options an uplink call must carry for the entry recorded under key k.
ExpectedUplink(v, k) ==
    [delete |-> TRUE, iface |-> v.iface, isp |-> v.isp, seed |-> AddrOctets(k)[3],
     node_id |-> v.node_id]

\* C3: every entry of the internet map gets exactly one uplink-deletion call,
\* with delete set, the entry's own iface, isp and node_id, and as seed the
\* third octet of the entry's address; without an internet map no call is
\* made.
C3_UplinkCalls ==
    \A p \in Procs :
        LET conf == global_config[p].internet
            keys == SortedSeq(DOMAIN conf.map)
        IN  /\ Len(uplinks[p]) <= Len(keys)
            /\ \A i \in DOMAIN uplinks[p] :
                  uplinks[p][i] = ExpectedUplink(conf.map[keys[i]], keys[i])
            /\ \A i, j \in DOMAIN uplinks[p] : i # j => uplinks[p][i] # uplinks[p][j]
            /\ ~conf.present => uplinks[p] = <<>>
            /\ In(p, "__delete_state") # {} => Len(uplinks[p]) = Len(keys)

C3_Witness ==
    \E p \in Procs :
        /\ Succeeded(p)
        /\ Len(uplinks[p]) = 2
        /\ uplinks[p][1].node_id # uplinks[p][2].node_id
        /\ uplinks[p][1].seed # uplinks[p][2].seed

\* Every call that deletes something: an uplink, a node, a network or a link.
Issued(p) == UplinkCalls(p) \cup DeleteCalls(p)

Active(p) ==
    /\ Idx(p, "__pre_check", "break_lock") # {}
    /\ Idx(p, "__post_check", "completed") = {}
    /\ pc[p] # <<"raised">>
    /\ Issued(p) # {}

C6_AlwaysSucceeds ==
    \A p \in Procs :
        /\ trace[p] # <<>> => trace[p][1].op = "break_lock"
        /\ pc[p] # <<"raised">>
        /\ result[p] \in {NoResult, "ReturnMsg(0)"}

Last(s) == s[Len(s)]

\* C7 as stated: for each of the three kinds of host resource, an empty
\* answer to the prompt leaves the resource as it is, is logged as left, and
\* the loop goes on to the next resource without an error.
C7_EmptyReplyLeaves ==
    [][\A p \in Procs : \A ph \in Range(CleanupHostSteps) :
          (At(p, Asked(ph)) /\ reply[p] = <<>> /\ pc'[p] # pc[p]) =>
              /\ pc'[p] = Loop(ph)
              /\ os' = os
              /\ result'[p] = result[p]
              /\ Len(trace'[p]) = Len(trace[p]) + 1
              /\ Last(trace'[p]).op = "leaving"
              /\ Last(trace'[p]).id = cur[p]]_vars

\* The run found no state file when it started.
StartedAbsent(p) ==
    IF In(p, "__delete_state_file") # {}
    THEN Idx(p, "__delete_state_file", "absent") # {}
    ELSE ~disk.exists

Started(p) == pc[p] \notin {<<"init">>, <<"idle">>}

HostFns == {"__delete_host_netns", "__delete_host_bridges", "__delete_host_links"}

HostEvents(p) == {i \in DOMAIN trace[p] : trace[p][i].fn \in HostFns}

C9_FileRemovedBetween ==
    \A p \in Procs :
        LET structural == In(p, "__delete_state")
            removal == In(p, "__delete_state_file")
            host == HostEvents(p)
        IN  /\ Before(structural, removal)
            /\ Before(removal, host)
            /\ removal # {} =>
                  /\ ReadsIn(trace[p], 1, 0) = Len(StateOps)
                  /\ \A i \in removal :
                        /\ i > 1
                        /\ trace[p][i - 1].fn = "__delete_state"
                        /\ trace[p][i - 1].op = "readState"
                  /\ ~disk.exists
            /\ host # {} => removal # {}
            /\ pc[p] = <<"done">> => removal # {} /\ ~disk.exists

C9_Witness ==
    \E p \in Procs :
        /\ Succeeded(p)
        /\ Idx(p, "__delete_state_file", "remove") # {}
        /\ StateCalls(p, "HappyLinkDelete") # {}
        /\ Idx(p, "__delete_host_netns", "HappyNodeDelete") # {}

\* The ids of the deletion calls made by host method fn, in call order.
CalledIn(p, fn, op) ==
    LET F[i \in 0..Len(trace[p])] ==
            IF i = 0 THEN <<>>
            ELSE IF trace[p][i].fn = fn /\ trace[p][i].op = op
                 THEN Append(F[i - 1], trace[p][i].id)
                 ELSE F[i - 1]
    IN  F[Len(trace[p])]

\* The host resources of the current phase that the loop is done with.
Handled(p) == SubSeq(items[p], 1, Len(items[p]) - Len(todo[p]))

\* C10: with the force flag set, host reconciliation issues a deletion call
\* for every enumerated host namespace, bridge and interface, in the order
\* of enumeration, and the run never prompts.
C10_ForceDeletesAll ==
    \A p \in Procs :
        opts[p].force =>
            /\ \A i \in DOMAIN trace[p] : trace[p][i].op # "input"
            /\ pc[p][1] \notin {"raised"}
            /\ At(p, Loop("host_netns")) =>
                  CalledIn(p, "__delete_host_netns", "HappyNodeDelete") = Handled(p)
            /\ At(p, Loop("host_bridges")) =>
                  CalledIn(p, "__delete_host_bridges", "HappyNetworkDelete") = Handled(p)
            /\ At(p, Loop("host_links")) =>
                  CalledIn(p, "__delete_host_links", "HappyLinkDelete") = Handled(p)
            /\ Succeeded(p) /\ opts[p].all =>
                  /\ Idx(p, "__delete_host_netns", "getHostNamespaces") # {}
                  /\ Idx(p, "__delete_host_bridges", "getHostBridges") # {}
                  /\ Idx(p, "__delete_host_links", "getHostInterfaces") # {}

C10_Witness ==
    \E p \in Procs :
        /\ opts[p].force /\ opts[p].all
        /\ Succeeded(p)
        /\ Len(CalledIn(p, "__delete_host_netns", "HappyNodeDelete")) >= 1
        /\ Len(CalledIn(p, "__delete_host_bridges", "HappyNetworkDelete")) >= 1
        /\ Len(CalledIn(p, "__delete_host_links", "HappyLinkDelete")) >= 1

HostPhases == Range(CleanupHostSteps)

\* The answer held in reply is affirmative: its first character is 'y'.
Affirmative(r) == r # <<>> /\ r[1] = "y"

\* C11 as stated: the answer is lower-cased and trimmed and is affirmative
\* exactly when its first character is 'y'; for every host namespace, bridge
\* and interface the deletion call is issued exactly when the answer is
\* affirmative, and every other answer leaves the resource untouched with a
\* log record that names it.
C11_AnswerDecides ==
    [][\A p \in Procs : \A ph \in HostPhases :
          (At(p, Asked(ph)) /\ pc'[p] # pc[p]) =>
              /\ reply[p] \in {Normalized(r) : r \in Replies}
              /\ Len(trace'[p]) = Len(trace[p]) + 1
              /\ Last(trace'[p]).id = cur[p]
              /\ IF Affirmative(reply[p])
                 THEN Last(trace'[p]).op \in DeleteOps
                 ELSE Last(trace'[p]).op = "leaving" /\ os' = os]_vars

\* The event a step of invocation p adds to its trace, as a set: empty when
\* the step adds none.
Added(p) == {trace'[p][i] : i \in (Len(trace[p]) + 1)..Len(trace'[p])}

\* The IDs of the in-memory state that a deletion command of kind op names.
Listed(st, op) ==
    CASE op = "HappyNodeDelete" -> st.nodes
      [] op = "HappyNetworkDelete" -> st.networks
      [] op = "HappyLinkDelete" -> DOMAIN st.links

\* C12: without the option all, whatever force is, a run makes no host
\* query and no prompt and deletes only what the state it read lists, so the
\* host's other resources stay; a prompt is only ever made inside host
\* reconciliation, by a run with the option all, after the state file is
\* removed.
C12_HostOnlyWithAll ==
    [][\A p \in Procs : \A e \in Added(p) :
          /\ ~opts[p].all =>
                /\ e.fn \notin HostFns
                /\ e.op # "input"
                /\ e.op \in DeleteOps =>
                      /\ e.fn = "__delete_state"
                      /\ e.id \in Listed(mem[p], e.op)
                      /\ os'.netns \cup {e.id} = os.netns \cup {e.id}
                      /\ os'.bridges \cup {e.id} = os.bridges \cup {e.id}
                      /\ os'.ifaces \cup {e.id} = os.ifaces \cup {e.id}
          /\ e.fn \in HostFns =>
                /\ opts[p].all
                /\ ~disk.exists
                /\ In(p, "__delete_state_file") # {}
          /\ e.op = "input" => e.fn \in HostFns]_vars

C12_Witness ==
    \E p \in Procs :
        /\ Succeeded(p)
        /\ ~opts[p].all /\ opts[p].force
        /\ DeleteCalls(p) # {}
        /\ os.netns # {} /\ os.bridges # {} /\ os.ifaces # {}

\* The method and the deletion command of each phase that does not ask.
PhaseCalls ==
    [delete_internet |-> <<"__delete_internet", "HappyInternet">>,
     nodes |-> <<"__delete_state", "HappyNodeDelete">>,
     networks |-> <<"__delete_state", "HappyNetworkDelete">>,
     links |-> <<"__delete_state", "HappyLinkDelete">>]

\* C13: a deletion command that returns a failure does not abort the run:
\* in the uplink phase and in each structural phase the calls made so far
\* are, in order, the enumerated resources the loop is done with, whether or
\* not a call failed, so the loop ends only when every enumerated resource
\* had its call; a run never ends in an exception because a call failed, and
\* a completed run has gone through the three re-reads, the removal of the
\* state file, host reconciliation when requested and the post-check.
C13_FailureDoesNotAbort ==
    \A p \in Procs :
        /\ \A ph \in DOMAIN PhaseCalls :
              At(p, Loop(ph)) =>
                  CalledIn(p, PhaseCalls[ph][1], PhaseCalls[ph][2]) = Handled(p)
        /\ pc[p] = <<"raised">> => result[p] = "IndexError" /\ reply[p] = <<>>
        /\ pc[p] = <<"done">> =>
              /\ ReadsIn(trace[p], 1, 0) = Len(StateOps)
              /\ In(p, "__delete_state_file") # {}
              /\ opts[p].all => Idx(p, "__delete_host_links", "readState") # {}
              /\ Last(trace[p]).fn = "__post_check"

C13_Witness ==
    \E p \in Procs :
        /\ Succeeded(p)
        /\ failures[p] >= 1
        /\ opts[p].all
        /\ Len(CalledIn(p, "__delete_state", "HappyNodeDelete")) >= 2
        /\ StateCalls(p, "HappyNetworkDelete") # {}
        /\ os.netns # {}

\* C14 as stated: corrupt state and pre-check failures apart, neither of
\* which this teardown meets, a run that ends returns the success status:
\* absent state, a failed deletion and a declined confirmation are absorbed.
C14_OnlySuccessReported ==
    \A p \in Procs :
        /\ result[p] # NoResult => result[p] = "ReturnMsg(0)"
        /\ pc[p] \in {<<"done">>, <<"raised">>} => Succeeded(p)

\* The method, the host query and the live resources of each sub-pass of
\* host reconciliation.
HostPass ==
    [host_netns |-> [fn |-> "__delete_host_netns", query |-> "getHostNamespaces"],
     host_bridges |-> [fn |-> "__delete_host_bridges", query |-> "getHostBridges"],
     host_links |-> [fn |-> "__delete_host_links", query |-> "getHostInterfaces"]]

Live(o, ph) ==
    CASE ph = "host_netns" -> o.netns
      [] ph = "host_bridges" -> o.bridges
      [] ph = "host_links" -> o.ifaces

HostQueries == {HostPass[ph].query : ph \in HostPhases}

\* The sub-pass ph of invocation p is over.
PassOver(p, ph) ==
    /\ In(p, HostPass[ph].fn) # {}
    /\ pc[p][1] # ph
    /\ pc[p] # <<"raised">>

LastOf(p, fn) == trace[p][CHOOSE i \in In(p, fn) : \A j \in In(p, fn) : j <= i]

FirstOf(p, fn) == trace[p][CHOOSE i \in In(p, fn) : \A j \in In(p, fn) : i <= j]

C15_Order(p) ==
    LET netns == In(p, "__delete_host_netns")
        bridges == In(p, "__delete_host_bridges")
        links == In(p, "__delete_host_links")
    IN  Before(netns, bridges) /\ Before(bridges, links) /\ Before(netns, links)

\* C15 as stated: the three sub-passes run in the order namespaces, bridges,
\* interfaces, each enumerates the live host resources at its start, and
\* each queries the host resources again after it has processed them.
C15_RequeriesHost ==
    \A p \in Procs :
        /\ C15_Order(p)
        /\ \A ph \in HostPhases :
              /\ In(p, HostPass[ph].fn) # {} =>
                    FirstOf(p, HostPass[ph].fn).op = HostPass[ph].query
              /\ PassOver(p, ph) => LastOf(p, HostPass[ph].fn).op \in HostQueries

\* C15: the three sub-passes run in the order namespaces, bridges,
\* interfaces; each queries the host for the resources of its kind once, as
\* its first step, and ends by re-reading the persisted state, not the host;
\* what a sub-pass still has to handle is on the host, and nothing of its
\* kind on the host is missing from its enumeration, so no sub-pass acts on
\* an enumeration older than an earlier sub-pass's deletions.
C15_HostPasses ==
    \A p \in Procs :
        /\ C15_Order(p)
        /\ \A ph \in HostPhases :
              LET pass == In(p, HostPass[ph].fn)
                  first == CHOOSE i \in pass : \A j \in pass : i <= j
                  last == CHOOSE i \in pass : \A j \in pass : j <= i
              IN  /\ pass # {} =>
                        /\ trace[p][first].op = HostPass[ph].query
                        /\ \A i \in pass \ {first} : trace[p][i].op \notin HostQueries
                  /\ (pass # {} /\ pc[p][1] # ph /\ pc[p] # <<"raised">>) =>
                        trace[p][last].op = "readState"
                  /\ At(p, Loop(ph)) =>
                        /\ Range(todo[p]) \subseteq Live(os, ph)
                        /\ Live(os, ph) \subseteq Range(items[p])

C15_Witness ==
    \E p \in Procs :
        /\ Succeeded(p)
        /\ \A ph \in HostPhases :
              /\ Idx(p, HostPass[ph].fn, "input") # {}
              /\ LastOf(p, HostPass[ph].fn).op = "readState"
        /\ Idx(p, "__delete_host_netns", "HappyNodeDelete") # {}

\* C16: no deletion call of the network phase names a network that is no
\* longer in the persisted state, and no deletion call of the link phase
\* names a link that is no longer in the persisted state, whatever the node
\* and network phases pruned by cascading; while the network or the link
\* phase runs, what it still has to handle is in the persisted state.
C16_NoStaleCall ==
    [][\A p \in Procs : \A e \in Added(p) :
          /\ (e.fn = "__delete_state" /\ e.op \in {"HappyNetworkDelete", "HappyLinkDelete"}) =>
                e.id \in Listed(ReadState(disk), e.op)
          /\ (e.fn = "__delete_state" /\ e.op = "getNetworkIds") =>
                Range(items'[p]) = ReadState(disk).networks
          /\ (e.fn = "__delete_state" /\ e.op = "getLinkIds") =>
                Range(items'[p]) = DOMAIN ReadState(disk).links]_vars

\* The node phase has made all its calls, the state it enumerated from lists
\* a link, and a cascade has pruned every link from the state file.
C16_Witness ==
    \E p \in Procs :
        /\ At(p, Loop("nodes"))
        /\ todo[p] = <<>>
        /\ StateCalls(p, "HappyNodeDelete") # {}
        /\ DOMAIN mem[p].links # {}
        /\ disk.exists
        /\ DOMAIN disk.state.links = {}
        /\ disk.state.networks # {}

Ended(p) == pc[p] \in {<<"done">>, <<"raised">>}

\* How many events of method fn with an op of ops name the resource id.
Count(p, fn, ops, id) ==
    Cardinality({i \in In(p, fn) : trace[p][i].op \in ops /\ trace[p][i].id = id})

\* C17 as stated, for a run that has ended: every host resource the run
\* came to was handled exactly once, with at most one prompt and then
\* exactly one deletion call or exactly one record that it is left, never
\* both, and the completion record of the post-check is the last step.
C17_HandledOnceThenCompleted ==
    \A p \in Procs :
        Ended(p) =>
            /\ Last(trace[p]) = Ev("__post_check", "completed", 0, opts[p].quiet)
            /\ \A fn \in HostFns : \A i \in In(p, fn) :
                  trace[p][i].op \in DeleteOps \cup {"input", "leaving"} =>
                      /\ Count(p, fn, {"input"}, trace[p][i].id) <= 1
                      /\ Count(p, fn, DeleteOps \cup {"leaving"}, trace[p][i].id) = 1

MissingNode == "Missing name of the virtual node."

NoSuchNode == "virtual node does not exist."

MissingTag == "Missing name of the process to retrieve output from."

NoOutputFile == "Process tag could not be found at node."

\* What __pre_check must end in for the object o on the disk d: the error of
\* the first test that fails, or "none".
PreCheckVerdict(o, d) ==
    IF Falsy(o.node_id) THEN MissingNode
    ELSE IF o.node_id[1] \notin NodeNames(ReadState(d)) THEN NoSuchNode
    ELSE IF Falsy(o.tag) THEN MissingTag
    ELSE "none"

ReadOnce(o, f) ==
    /\ o.delays <= 1
    /\ o.reads <= 1
    /\ o.pc \in {"return", "done"} =>
          /\ o.reads = 1
          /\ f.file.kind = "text"
          /\ o.process_output = Some(f.file.content)
    /\ o.pc = "done" => o.result = Some([status |-> 0, data |-> Some(f.file.content)])
    /\ o.pc # "done" => o.result = None
    /\ (o.pc = "raised" /\ o.reads = 1) =>
          /\ f.file.kind # "text"
          /\ o.error = IF f.file.kind = "undecodable" THEN "Exception" ELSE "IOError"
          /\ o.process_output = None

\* C19: the delay is taken at most once, and only when the file does not
\* exist when first tested; the read is attempted exactly once, after the
\* test and the delay; a read that succeeds makes the run return status 0
\* with exactly the content of the file, and a file that is still missing or
\* cannot be read makes it raise an error and return no result.
C19_DelayOnceReadOnce ==
    [][/\ ReadOnce(out', fs')
       /\ out'.delays > out.delays =>
             /\ out.pc = "delay"
             /\ fs.file.kind = "missing"
             /\ out.reads = 0
       /\ out'.reads > out.reads =>
             /\ fs.file.kind = "missing" => out.delays = 1
             /\ fs' = fs
       /\ fs' # fs => out'.delays > out.delays]_vars

\* The file appeared during the delay and its content was returned.
C19_Witness ==
    /\ out.pc = "done"
    /\ out.delays = 1
    /\ out.reads = 1
    /\ out.result = Some([status |-> 0, data |-> Some(<<"o", "k">>)])

\* C20: the modules' options dicts never change: option() returns a new
\* dict equal to the module's, a key set on a returned record changes that
\* record only, neither the module's dict nor a record returned before, and
\* constructing HappyStateDelete or HappyProcessOutput, and running
\* HappyProcessOutput, change no dict at all.
C20_DefaultsUnchanged ==
    [][/\ \A m \in Modules : heap'[ModuleRef(m)] = ModuleHeap[ModuleRef(m)]
       /\ \A i, j \in DOMAIN returned' :
             /\ returned'[i] \notin {ModuleRef(m) : m \in Modules}
             /\ i # j => returned'[i] # returned'[j]
       /\ Len(returned') > Len(returned) =>
             /\ \A r \in DOMAIN heap : heap'[r] = heap[r]
             /\ \E m \in Modules : heap'[Last(returned')] = ModuleHeap[ModuleRef(m)]
       /\ Len(returned') = Len(returned) =>
             /\ DOMAIN heap' = DOMAIN heap
             /\ Cardinality({r \in DOMAIN heap : heap'[r] # heap[r]}) <= 1
             /\ \A r \in DOMAIN heap : heap'[r] # heap[r] => r \in Range(returned)
       /\ (out' # out \/ opts' # opts \/ pc' # pc) => heap' = heap]_vars

\* Two records of one module, set to different values, neither equal to the
\* module's dict, and a HappyProcessOutput constructed from one and run.
C20_Witness ==
    /\ Len(returned) = 2
    /\ DOMAIN heap[returned[1]] = DOMAIN ProcessOutputOptions
    /\ DOMAIN heap[returned[2]] = DOMAIN ProcessOutputOptions
    /\ heap[returned[1]] # heap[returned[2]]
    /\ heap[returned[1]] # ProcessOutputOptions
    /\ heap[returned[2]] # ProcessOutputOptions
    /\ out.pc = "done"
    /\ out.node_id = heap[returned[2]].node_id

====
